---- MODULE Spec2Model ----
(***************************************************************************)
(* A model of the product discovery service:                               *)
(*                                                                         *)
(*  - the LangGraph pipeline of src/src/product_pipeline.py                *)
(*    (download -> extract -> search -> finalize over one PipelineState);  *)
(*  - the webhook dispatcher of src/src/webhook_receiver.py, with the      *)
(*    dedup ledger, the acknowledgment, the background task and the        *)
(*    run_pipeline of src/src/pipeline.py that the task calls.             *)
(*                                                                         *)
(* Python's None is the empty tuple <<>> and a present value x is <<x>>,   *)
(* so that `x is None', `not x' and `x.get(k)' keep their meaning.         *)
(***************************************************************************)
EXTENDS Integers, Sequences, FiniteSets, TLC

VARIABLES
    \* ---- one run of the LangGraph pipeline (product_pipeline.py)
    state,      \* the PipelineState being threaded through the nodes
    node,       \* the node the graph is about to run ("END" after finalize)
    attempts,   \* invocations of the current node under its RetryPolicy
    trace,      \* history: node invocations, collaborator calls, sleeps
    \* ---- the dispatcher (webhook_receiver.py)
    config,             \* the Config read from the environment at start
    processed_messages, \* the dedup ledger (a Python set)
    inserted,           \* history: identifiers in the order they were added
    duplicates,         \* history: identifiers logged "Skipping duplicate message"
    pending,            \* a POST /webhook is being handled and has events still to come
    threads,            \* the background pipeline threads
    outbox,             \* the calls of send_message_to_user, in order
    response,           \* HTTP status of the last POST /webhook answered (0: none yet)
    \* ---- a function or handler taken on its own
    call_args,          \* what it is called with
    call_result,        \* what it returned (None before the call)
    handlers            \* the invocations of handle_webhook running side by side

vars == << state, node, attempts, trace,
           config, processed_messages, inserted, duplicates, pending, threads, outbox,
           response, call_args, call_result, handlers >>

pipeline_vars == << state, node, attempts, trace >>
dispatcher_vars == << config, processed_messages, inserted, duplicates, pending,
                      threads, outbox, response >>
call_vars == << call_args, call_result, handlers >>

(***************************************************************************)
(* Bounds of the model.                                                    *)
(***************************************************************************)
MaxUrls == 2        \* distinct URLs a search can return
MaxQueries == 2     \* search queries an extraction can yield
MaxAdmissions == 2  \* events the dispatcher admits in one behaviour
MaxMarks == 4       \* calls of mark_message_processed in one behaviour of the ledger
MaxCandidates == 3  \* candidate URLs of one message
MaxHandlers == 2    \* invocations of handle_webhook running side by side
MaxEvents == 2      \* messaging events of one request body
MaxResults == 30    \* URLs handed to send_product_results
\* MAX_PROCESSED_MESSAGES is 1000 at webhook_receiver.py:52; the model keeps
\* the code's use of it and scales its value so that the ledger fills
MAX_PROCESSED_MESSAGES == 1

(***************************************************************************)
(* Python values.                                                          *)
(***************************************************************************)
None == << >>
Some(x) == << x >>
IsNone(o) == Len(o) = 0
\* bool(x) of an optional list: None and the empty list are falsy
\* a test that takes whatever is there for a non-empty list
NonEmpty_any(o) == TRUE

NonEmpty(o) == Len(o) > 0 /\ Len(o[1]) > 0

Urls == 1..MaxUrls
Queries == 1..MaxQueries

RECURSIVE NoDupSeqs(_, _)
\* the duplicate-free sequences over S of length at most n
NoDupSeqs(S, n) ==
    IF n = 0 \/ S = {} THEN { << >> }
    ELSE { << >> } \cup
         UNION { { << x >> \o t : t \in NoDupSeqs(S \ {x}, n - 1) } : x \in S }

\* list(set(...)) at claude_product_search.py:224: the URLs come back without duplicates
UrlLists == NoDupSeqs(Urls, MaxUrls)
QueryLists == { [i \in 1..n |-> i] : n \in 0..MaxQueries }


(***************************************************************************)
(* What a call produced: a returned value, or an exception with its text.  *)
(***************************************************************************)
Ret(v) == [raised |-> FALSE, msg |-> "", value |-> v]
Raise(m) == [raised |-> TRUE, msg |-> m, value |-> None]

\* one entry of the history of a run
Ev(e, n) == [ev |-> e, arg |-> n, text |-> ""]
EvT(e, n, t) == [ev |-> e, arg |-> n, text |-> t]

(***************************************************************************)
(* StageLog.to_dict(): the fields of a log entry that are not None.        *)
(* duration is "set" / absent, metadata keeps is_rate_limit when present.  *)
(***************************************************************************)
StageLog(stage, status, dur, err, rl) ==
    [stage |-> stage, status |-> status, has_duration |-> dur,
     error |-> err, is_rate_limit |-> rl]

(***************************************************************************)
(* The initial state run_pipeline builds.                                  *)
(***************************************************************************)
initial_state ==
    [ media_file_path |-> None, media_type |-> None, download_error |-> None,
      extracted_frames |-> None, product_info |-> None, search_queries |-> None,
      extraction_error |-> None,
      product_urls |-> << >>, search_error |-> None, search_error_type |-> None,
      pipeline_end_time |-> None,
      logs |-> << >>, errors |-> << >>,
      completed_successfully |-> FALSE ]

\* the keys whose reducer is operator.add; every other key is overwritten
Accumulated == {"logs", "errors"}

\* StateGraph's merge of a node's partial update into the state
Merge(st, upd) ==
    [k \in DOMAIN st |->
        IF k \in DOMAIN upd
        THEN IF k \in Accumulated THEN st[k] \o upd[k] ELSE upd[k]
        ELSE st[k]]

\* what a node hands back to the graph: an update or an exception, and what it called
Returned(upd, calls) == [raised |-> FALSE, update |-> upd, calls |-> calls]
Escaped(calls) == [raised |-> TRUE, update |-> [logs |-> << >>], calls |-> calls]

(***************************************************************************)
(* Node 1: download.                                                       *)
(***************************************************************************)
\* download_from_cdn returns a dict with success=True, or None: both of its
\* except clauses return None, so nothing is raised to the node
MediaTypes == {"image", "video", "unknown"}
DownloadResult(t) ==
    Some([success |-> TRUE, media_type |-> t, file_path |-> "media"])
download_from_cdn == { Ret(None) } \cup { Ret(DownloadResult(t)) : t \in MediaTypes }

DownloadFailedMsg == "Download failed: No result returned"

\* a download node without its `except Exception': a fault of the collaborator
\* leaves the node
node_download_media_uncaught(st, out) ==
    LET calls == << Ev("node:download", 0), Ev("download_from_cdn", 0) >>
        failed(m) ==
            Returned([download_error |-> Some(m),
                      logs |-> << StageLog("download", "error", TRUE, Some(m), None) >>,
                      errors |-> << [stage |-> "download", text |-> m] >>], calls)
    IN  IF out.raised THEN Escaped(calls)
        ELSE IF ~IsNone(out.value) /\ out.value[1].success
        THEN Returned([media_file_path |-> Some(out.value[1].file_path),
                       media_type |-> Some(out.value[1].media_type),
                       logs |-> << StageLog("download", "success", TRUE, None, None) >>],
                      calls)
        ELSE failed(DownloadFailedMsg)

node_download_media(st, out) ==
    LET calls == << Ev("node:download", 0), Ev("download_from_cdn", 0) >>
        failed(m) ==
            Returned([download_error |-> Some(m),
                      logs |-> << StageLog("download", "error", TRUE, Some(m), None) >>,
                      errors |-> << [stage |-> "download", text |-> m] >>], calls)
    IN  IF out.raised THEN failed(out.msg)
        ELSE IF ~IsNone(out.value) /\ out.value[1].success
        THEN Returned([media_file_path |-> Some(out.value[1].file_path),
                       media_type |-> Some(out.value[1].media_type),
                       logs |-> << StageLog("download", "success", TRUE, None, None) >>],
                      calls)
        ELSE failed(DownloadFailedMsg)

(***************************************************************************)
(* Node 2: extraction.                                                     *)
(***************************************************************************)
\* extract_frames_from_video: the frames it wrote (none when the video cannot
\* be read), or an exception from the video library
FrameResults == { Ret(<< >>), Ret(<< "frame_000" >>), Ret(<< "frame_000", "frame_001" >>),
                  Raise("video decode error") }

\* prepare_media_for_extraction: frames of a video, the file itself for an
\* image, nothing for any other suffix (a download of unknown type is a .bin)
prepare_media_for_extraction(media_type, frames) ==
    IF media_type = "video" THEN frames
    ELSE IF media_type = "image" THEN Ret(<< "media" >>)
    ELSE Ret(<< >>)

\* extract_with_google_gemini returns None (every failure is caught inside it)
\* or the parsed dict, which may or may not carry a search_queries key
ProductInfos ==
    { [has_search_queries |-> FALSE, search_queries |-> None] } \cup
    { [has_search_queries |-> TRUE, search_queries |-> q] :
        q \in { None } \cup { Some(l) : l \in QueryLists } }
extract_with_google_gemini == { Ret(None) } \cup { Ret(Some(pi)) : pi \in ProductInfos }

\* generate_search_queries: the pre-generated queries when the key is there
\* (whatever it holds), otherwise queries built from the other fields, which
\* end in the one-element fallback list and are never empty
generate_search_queries(pi) ==
    IF pi.has_search_queries THEN pi.search_queries ELSE Some(<< 1 >>)

PrepareFailedMsg == "Failed to prepare media for extraction"
NoVlmResultMsg == "VLM extraction returned no results"
LenOfNoneMsg == "object of type 'NoneType' has no len()"
PathOfNoneMsg == "expected str, bytes or os.PathLike object, not NoneType"

node_extract_product_info(st, frames, vlm) ==
    LET enter == << Ev("node:extraction", 0) >>
        failed(m, calls) ==
            Returned([extraction_error |-> Some(m),
                      logs |-> << StageLog("extraction", "error", TRUE, Some(m), None) >>,
                      errors |-> << [stage |-> "extraction", text |-> m] >>], calls)
    IN  IF ~IsNone(st.download_error)
        THEN Returned([logs |-> << StageLog("extraction", "skipped", FALSE, None, None) >>],
                      enter)
        ELSE IF IsNone(st.media_file_path) THEN failed(PathOfNoneMsg, enter)
        ELSE
          LET prep == prepare_media_for_extraction(st.media_type[1], frames)
              c1 == enter \o << Ev("prepare_media_for_extraction", 0) >>
              c2 == c1 \o << Ev("extract_with_google_gemini", 0) >>
          IN  IF prep.raised THEN failed(prep.msg, c1)
              ELSE IF Len(prep.value) = 0 THEN failed(PrepareFailedMsg, c1)
              ELSE IF vlm.raised THEN failed(vlm.msg, c2)
              ELSE IF IsNone(vlm.value) THEN failed(NoVlmResultMsg, c2)
              ELSE
                LET search_queries == generate_search_queries(vlm.value[1])
                IN  IF IsNone(search_queries) THEN failed(LenOfNoneMsg, c2)
                    ELSE Returned(
                           [extracted_frames |-> Some(prep.value),
                            product_info |-> vlm.value,
                            search_queries |-> search_queries,
                            logs |-> << StageLog("extraction", "success", TRUE, None, None) >>],
                           c2)

(***************************************************************************)
(* Node 3: search.                                                         *)
(***************************************************************************)
max_retries == 2
retry_delay == 60

\* The texts an exception escaping search_products can carry. Only
\* anthropic.RateLimitError is re-raised (claude_product_search.py:327-330);
\* its text is the API's, and the node classifies it by that text alone.
RateLimitBody == "Error code: 429 - {'error': {'type': 'rate_limit_error'}}"
RateLimitWord == "Rate_Limit exceeded"
RateLimitCode == "HTTP 429"
RateLimitPlain == "Too Many Requests"
SearchErrorTexts == { RateLimitBody, RateLimitWord, RateLimitCode, RateLimitPlain }

\* "rate_limit" in text.lower(), and "429" in text, for the texts of the model
HasRateLimitWord(text) == text \in { RateLimitBody, RateLimitWord }
Has429(text) == text \in { RateLimitBody, RateLimitCode }

\* a variant that demands both marks
is_rate_limit_error_both(text) == HasRateLimitWord(text) /\ Has429(text)

is_rate_limit_error(text) == HasRateLimitWord(text) \/ Has429(text)

\* ClaudeProductSearcher(): raises ValueError when the API key is missing
MissingKeyMsg == "ANTHROPIC_API_KEY not found in .env file"
ClaudeProductSearcher == { Ret(None), Raise(MissingKeyMsg) }

\* searcher.search_products: a duplicate-free URL list (empty on every
\* failure it catches itself), or the re-raised rate-limit error
search_products == { Ret(l) : l \in UrlLists } \cup { Raise(t) : t \in SearchErrorTexts }

RECURSIVE search_loop_unbounded(_, _)
\* a variant that also sleeps and goes round after the last attempt
search_loop_unbounded(attempt, outs) ==
    IF attempt >= max_retries
    THEN [raised |-> FALSE, msg |-> "", value |-> << >>, calls |-> << >>]
    ELSE
      LET out == outs[attempt + 1]
          call == << Ev("search_products", attempt) >>
          exc == << EvT("search_products raised", attempt, out.msg) >>
      IN  IF ~out.raised
          THEN [raised |-> FALSE, msg |-> "", value |-> out.value, calls |-> call]
          ELSE IF is_rate_limit_error(out.msg)
          THEN LET rest == search_loop_unbounded(attempt + 1, outs)
               IN  [rest EXCEPT
                      !.calls = call \o exc \o << Ev("sleep", retry_delay) >> \o @]
          ELSE [raised |-> TRUE, msg |-> out.msg, value |-> << >>, calls |-> call \o exc]

RECURSIVE search_loop(_, _)
\* for attempt in range(max_retries): outs[attempt + 1] is what that call does
search_loop(attempt, outs) ==
    IF attempt >= max_retries
    THEN [raised |-> FALSE, msg |-> "", value |-> << >>, calls |-> << >>]
    ELSE
      LET out == outs[attempt + 1]
          call == << Ev("search_products", attempt) >>
          exc == << EvT("search_products raised", attempt, out.msg) >>
      IN  IF ~out.raised
          THEN [raised |-> FALSE, msg |-> "", value |-> out.value, calls |-> call]
          ELSE IF is_rate_limit_error(out.msg) /\ attempt < max_retries - 1
          THEN LET rest == search_loop(attempt + 1, outs)
               IN  [rest EXCEPT
                      !.calls = call \o exc \o << Ev("sleep", retry_delay) >> \o @]
          ELSE [raised |-> TRUE, msg |-> out.msg, value |-> << >>, calls |-> call \o exc]

NoQueriesMsg == "No search queries available"

\* a search node that does not look at extraction_error
node_search_products_no_skip(st, ctor, outs) ==
    LET enter == << Ev("node:search", 0) >>
        failed(m, rl, calls) ==
            Returned([search_error |-> Some(m),
                      search_error_type |-> Some(IF rl THEN "rate_limit" ELSE "unknown"),
                      logs |-> << StageLog("search", "error", TRUE, Some(m), Some(rl)) >>,
                      errors |-> << [stage |-> "search", text |-> m] >>], calls)
    IN  IF ~NonEmpty(st.search_queries)
        THEN Returned([search_error |-> Some(NoQueriesMsg),
                       logs |-> << StageLog("search", "error", TRUE, Some(NoQueriesMsg), None) >>,
                       errors |-> << [stage |-> "search", text |-> NoQueriesMsg] >>],
                      enter)
        ELSE
          LET c1 == enter \o << Ev("ClaudeProductSearcher", 0) >>
          IN  IF ctor.raised THEN failed(ctor.msg, is_rate_limit_error(ctor.msg), c1)
              ELSE
                LET r == search_loop(0, outs)
                IN  IF r.raised
                    THEN failed(r.msg, is_rate_limit_error(r.msg), c1 \o r.calls)
                    ELSE Returned(
                           [product_urls |-> r.value,
                            logs |-> << StageLog("search", "success", TRUE, None, None) >>],
                           c1 \o r.calls)

node_search_products(st, ctor, outs) ==
    LET enter == << Ev("node:search", 0) >>
        failed(m, rl, calls) ==
            Returned([search_error |-> Some(m),
                      search_error_type |-> Some(IF rl THEN "rate_limit" ELSE "unknown"),
                      logs |-> << StageLog("search", "error", TRUE, Some(m), Some(rl)) >>,
                      errors |-> << [stage |-> "search", text |-> m] >>], calls)
    IN  IF ~IsNone(st.extraction_error)
        THEN Returned([logs |-> << StageLog("search", "skipped", FALSE, None, None) >>],
                      enter)
        ELSE IF ~NonEmpty(st.search_queries)
        THEN Returned([search_error |-> Some(NoQueriesMsg),
                       logs |-> << StageLog("search", "error", TRUE, Some(NoQueriesMsg), None) >>,
                       errors |-> << [stage |-> "search", text |-> NoQueriesMsg] >>],
                      enter)
        ELSE
          LET c1 == enter \o << Ev("ClaudeProductSearcher", 0) >>
          IN  IF ctor.raised THEN failed(ctor.msg, is_rate_limit_error(ctor.msg), c1)
              ELSE
                LET r == search_loop(0, outs)
                IN  IF r.raised
                    THEN failed(r.msg, is_rate_limit_error(r.msg), c1 \o r.calls)
                    ELSE Returned(
                           [product_urls |-> r.value,
                            logs |-> << StageLog("search", "success", TRUE, None, None) >>],
                           c1 \o r.calls)

(***************************************************************************)
(* Node 4: finalize.                                                       *)
(***************************************************************************)
\* a variant whose success flag ignores the search result
node_finalize_pipeline_errors_only(st) ==
    LET completed_successfully == Len(st.errors) = 0
    IN  Returned([pipeline_end_time |-> Some("now"),
                  completed_successfully |-> completed_successfully,
                  logs |-> << StageLog("finalize",
                                       IF completed_successfully THEN "success"
                                       ELSE "completed_with_errors",
                                       TRUE, None, None) >>],
                 << Ev("node:finalize", 0) >>)

\* a finalize node that raises instead of returning
node_finalize_pipeline_raises(st) == Escaped(<< Ev("node:finalize", 0) >>)

node_finalize_pipeline(st) ==
    LET has_errors == Len(st.errors) > 0
        completed_successfully == ~has_errors /\ Len(st.product_urls) > 0
        cleanup == IF NonEmpty(st.extracted_frames) /\ ~IsNone(st.media_file_path)
                   THEN << Ev("cleanup_processed_files", 0) >>
                   ELSE << >>
    IN  Returned([pipeline_end_time |-> Some("now"),
                  completed_successfully |-> completed_successfully,
                  logs |-> << StageLog("finalize",
                                       IF completed_successfully THEN "success"
                                       ELSE "completed_with_errors",
                                       TRUE, None, None) >>],
                 << Ev("node:finalize", 0) >> \o cleanup)

(***************************************************************************)
(* The compiled graph: START -> download -> extract -> search -> finalize  *)
(* -> END. download, extract and search carry RetryPolicy(max_attempts=3): *)
(* the graph re-invokes a node when the node raises, and lets the          *)
(* exception out of invoke() once max_attempts invocations have raised.    *)
(***************************************************************************)
max_attempts == 3

\* invocations a node may make: the policy's, or one for a node without policy
Allowed(n) == IF n \in {"download", "extract", "search"} THEN max_attempts ELSE 1

GraphStep(r, next) ==
    /\ trace' = trace \o r.calls
    /\ IF r.raised
       THEN /\ state' = state
            /\ IF attempts + 1 >= Allowed(node)
               THEN node' = "RAISED" /\ attempts' = 0
               ELSE node' = node /\ attempts' = attempts + 1
       ELSE /\ state' = Merge(state, r.update)
            /\ node' = next
            /\ attempts' = 0
    /\ UNCHANGED << dispatcher_vars, call_vars >>

\* a graph with an edge from download to search instead of to extract
DownloadThenSearch ==
    /\ node = "download"
    /\ \E out \in download_from_cdn :
          GraphStep(node_download_media(state, out), "search")

Download ==
    /\ node = "download"
    /\ \E out \in download_from_cdn :
          GraphStep(node_download_media(state, out), "extract")

Extract ==
    /\ node = "extract"
    /\ \E frames \in FrameResults, vlm \in extract_with_google_gemini :
          GraphStep(node_extract_product_info(state, frames, vlm), "search")

Search ==
    /\ node = "search"
    /\ \E ctor \in ClaudeProductSearcher, outs \in [1..max_retries -> search_products] :
          GraphStep(node_search_products(state, ctor, outs), "finalize")

Finalize ==
    /\ node = "finalize"
    /\ GraphStep(node_finalize_pipeline(state), "END")

\* no function is being taken on its own
NoCall == call_args = << >> /\ call_result = << >> /\ handlers = << >>

DispatcherIdle ==
    /\ config = [ENABLE_SIGNATURE_VERIFICATION |-> FALSE, APP_SECRET |-> None,
                 INSTAGRAM_BUSINESS_ACCOUNT_ID |-> None]
    /\ processed_messages = {}
    /\ inserted = << >>
    /\ duplicates = {}
    /\ pending = FALSE
    /\ threads = << >>
    /\ outbox = << >>
    /\ response = 0

PipelineInit ==
    /\ state = initial_state
    /\ node = "download"
    /\ attempts = 0
    /\ trace = << >>
    /\ DispatcherIdle
    /\ NoCall

PipelineNext == Download \/ Extract \/ Search \/ Finalize

\* one run of the LangGraph pipeline
PipelineSpec == PipelineInit /\ [][PipelineNext]_vars

(***************************************************************************)
(* Properties of one pipeline run (PipelineSpec).                          *)
(***************************************************************************)
RunEnded == node = "END"

\* how often the run did `ev'
Count(ev) == Cardinality({ i \in 1..Len(trace) : trace[i].ev = ev })

\* the statuses of the log entries a stage appended
LogStatuses(stage) ==
    { state.logs[i].status : i \in { j \in 1..Len(state.logs) : state.logs[j].stage = stage } }

\* a failure text that marks a rate limit: it names rate_limit or 429
RateLimited(text) == text \in { RateLimitBody, RateLimitWord, RateLimitCode }

\* C2: in a run whose download stage recorded an error, the extraction and the
\* search collaborators are not invoked, the extraction and the search log
\* entries both have status skipped, finalize runs and completed_successfully
\* is false.
C2_SkipCascade ==
    (RunEnded /\ ~IsNone(state.download_error)) =>
        /\ Count("prepare_media_for_extraction") = 0
        /\ Count("extract_with_google_gemini") = 0
        /\ Count("ClaudeProductSearcher") = 0
        /\ Count("search_products") = 0
        /\ LogStatuses("extraction") = { "skipped" }
        /\ LogStatuses("search") = { "skipped" }
        /\ Count("node:finalize") = 1
        /\ ~state.completed_successfully

\* C3: at the end of a run completed_successfully is true exactly when the
\* errors list is empty and the search produced at least one URL; the errors
\* list is empty exactly when no stage recorded an error.
C3_TerminalCondition ==
    RunEnded =>
        /\ state.completed_successfully <=>
              (Len(state.errors) = 0 /\ Len(state.product_urls) > 0)
        /\ Len(state.errors) = 0 <=>
              (/\ IsNone(state.download_error)
               /\ IsNone(state.extraction_error)
               /\ IsNone(state.search_error))

\* a run without errors and without search results, ended unsuccessful
C3_Witness ==
    /\ RunEnded
    /\ Len(state.errors) = 0
    /\ Count("search_products") > 0
    /\ Len(state.product_urls) = 0
    /\ ~state.completed_successfully

\* C8: a rate-limit failure of the first search attempt is followed by the
\* 60 s delay and exactly one more attempt (2 in total); any other failure,
\* and a rate-limit failure of the second attempt, ends the attempts, and the
\* stage records it as the search error; the stage itself runs once.
C8_RateLimitBackoff ==
    /\ Count("search_products") <= 2
    /\ Count("node:search") <= 1
    /\ \A i \in 1..Len(trace) :
          trace[i].ev = "search_products raised" =>
            IF RateLimited(trace[i].text) /\ trace[i].arg = 0
            THEN /\ i + 2 <= Len(trace)
                 /\ trace[i + 1] = Ev("sleep", 60)
                 /\ trace[i + 2] = Ev("search_products", 1)
                 /\ Count("search_products") = 2
            ELSE /\ \A j \in (i + 1)..Len(trace) :
                      trace[j].ev \notin { "search_products", "sleep" }
                 /\ state.search_error = Some(trace[i].text)

\* both attempts were made and both were rate limited
C8_Witness ==
    /\ Count("search_products") = 2
    /\ Count("search_products raised") = 2
    /\ Count("sleep") = 1
    /\ ~IsNone(state.search_error)

\* C9: a stage whose collaborator failed transiently is invoked 3 times
\* before its error is recorded in the run state.
C9_TransientRetry ==
    /\ ~IsNone(state.download_error) => Count("node:download") = 3
    /\ state.extraction_error = Some(NoVlmResultMsg) => Count("node:extraction") = 3

\* every call of the search collaborator in this run was rate limited
AllSearchAttemptsRateLimited ==
    /\ Count("search_products") > 0
    /\ \A i \in 1..Len(trace) :
          trace[i].ev = "search_products" =>
            /\ i < Len(trace)
            /\ trace[i + 1].ev = "search_products raised"
            /\ RateLimited(trace[i + 1].text)

\* C10: a run in which every search attempt was rate limited ends with
\* completed_successfully false, search_error set, no product URLs, and a
\* search log entry of status error whose metadata has is_rate_limit true.
C10_RateLimitOutcome ==
    (RunEnded /\ AllSearchAttemptsRateLimited) =>
        /\ ~state.completed_successfully
        /\ ~IsNone(state.search_error)
        /\ state.product_urls = << >>
        /\ \E i \in 1..Len(state.logs) :
              /\ state.logs[i].stage = "search"
              /\ state.logs[i].status = "error"
              /\ state.logs[i].is_rate_limit = Some(TRUE)

\* such a run, ended
C10_Witness == RunEnded /\ AllSearchAttemptsRateLimited /\ Count("sleep") = 1

(***************************************************************************)
(* The dispatcher: src/src/webhook_receiver.py.                            *)
(***************************************************************************)
Senders == { "u1", "u2" }
BotId == "bot"
\* message.get('mid', 'unknown'): the identifier of a message without one
unknown == 0
MsgIds == { 1, 2 }

\* The configurations the service can start with.
Configs ==
    [ENABLE_SIGNATURE_VERIFICATION : BOOLEAN,
     APP_SECRET : { None, Some("secret") },
     INSTAGRAM_BUSINESS_ACCOUNT_ID : { Some(BotId) }]

\* a deployment whose INSTAGRAM_BUSINESS_ACCOUNT_ID is not set
Deployed_no_account ==
    [ENABLE_SIGNATURE_VERIFICATION |-> TRUE, APP_SECRET |-> Some("secret"),
     INSTAGRAM_BUSINESS_ACCOUNT_ID |-> None]

\* the deployed configuration: verification on (its default), the secrets set
Deployed ==
    [ENABLE_SIGNATURE_VERIFICATION |-> TRUE, APP_SECRET |-> Some("secret"),
     INSTAGRAM_BUSINESS_ACCOUNT_ID |-> Some(BotId)]

\* ---- the ledger
\* a ledger that forgets: no identifier is ever found in it
is_message_processed_never(message_id) == FALSE

is_message_processed(message_id) == message_id \in processed_messages

\* a ledger the call leaves as it was
mark_message_processed_none(ledger, message_id, victim) == ledger

\* a ledger that only grows
mark_message_processed_keep(ledger, message_id, victim) == ledger \cup { message_id }

\* processed_messages.add(message_id), then set.pop() when the set is over
\* its bound. set.pop() removes an arbitrary element: `victim' is the one
\* this call removes.
mark_message_processed(ledger, message_id, victim) ==
    LET added == ledger \cup { message_id }
    IN  IF Cardinality(added) > MAX_PROCESSED_MESSAGES
        THEN added \ { victim }
        ELSE added

\* ---- signatures
\* The X-Hub-Signature-256 header of a request: absent, the HMAC-SHA256 of the
\* body under the app secret (with or without its sha256= prefix), or other hex
Signatures == { "", "sha256=hmac(secret,body)", "hmac(secret,body)", "sha256=0000" }

StripPrefix(signature) ==
    IF signature = "sha256=hmac(secret,body)" THEN "hmac(secret,body)"
    ELSE IF signature = "sha256=0000" THEN "0000"
    ELSE signature

\* a variant that lets a request without the header through
verify_webhook_signature_unsigned(cfg, signature) ==
    IF ~cfg.ENABLE_SIGNATURE_VERIFICATION \/ signature = "" THEN TRUE
    ELSE IF IsNone(cfg.APP_SECRET) THEN FALSE
    ELSE StripPrefix(signature) = "hmac(secret,body)"

verify_webhook_signature(cfg, signature) ==
    IF ~cfg.ENABLE_SIGNATURE_VERIFICATION THEN TRUE
    ELSE IF signature = "" \/ IsNone(cfg.APP_SECRET) THEN FALSE
    ELSE StripPrefix(signature) = "hmac(secret,body)"

\* ---- messages
AckMediaText == "Analyzing your product... I'll send you the purchase links shortly!"
AckPlainText == "Received your message. Processing..."
NoLinksText == "Sorry, I couldn't find purchase links for this product."
LinksText == "Here are purchase links"
PipelineFailedText == "Sorry, I encountered an issue while processing your product."
WentWrongText == "Sorry, something went wrong. Please try again later!"

\* one call of send_message_to_user: the recipient, the text, and the URLs
\* listed in the text
Message(recipient_id, text, urls) ==
    [to |-> recipient_id, text |-> text, urls |-> urls]

\* a handler that leaves the acknowledgment out
send_acknowledgment_none(recipient_id, cdn_url) == << >>

send_acknowledgment(recipient_id, cdn_url) ==
    << Message(recipient_id, IF ~IsNone(cdn_url) THEN AckMediaText ELSE AckPlainText,
               << >>) >>

urls_per_message == 10

\* a slice that always starts at the head of the list
Batch_head(product_urls, i) ==
    SubSeq(product_urls, 1,
           IF urls_per_message < Len(product_urls)
           THEN urls_per_message ELSE Len(product_urls))

\* product_urls[i : i + urls_per_message], i counted from 0
Batch(product_urls, i) ==
    SubSeq(product_urls, i + 1,
           IF i + urls_per_message < Len(product_urls)
           THEN i + urls_per_message ELSE Len(product_urls))

send_product_results(recipient_id, product_urls) ==
    IF Len(product_urls) = 0
    THEN << Message(recipient_id, NoLinksText, << >>) >>
    ELSE LET total_messages ==
                 (Len(product_urls) + urls_per_message - 1) \div urls_per_message
         IN  [k \in 1..total_messages |->
                Message(recipient_id, LinksText,
                        Batch(product_urls, (k - 1) * urls_per_message))]

(***************************************************************************)
(* run_pipeline of src/src/pipeline.py, the one webhook_receiver imports:  *)
(* download, extract, search, returning the search result or None.         *)
(***************************************************************************)
\* extract_from_file_path: None, the extracted dict with its search_queries,
\* or an exception of the frame extraction, which it does not catch
extract_from_file_path ==
    { Ret(None), Raise("video decode error") } \cup
    { Ret(Some([search_queries |-> q])) : q \in QueryLists }

\* the dict search_from_extraction_data builds: it has product_urls and the
\* search accounting, and none of the keys of a PipelineState
SearchResult(product_urls) ==
    [product_urls |-> Some(product_urls), completed_successfully |-> None,
     sender_id |-> None, errors |-> None]

search_from_extraction_data(extraction_data, ctor, found) ==
    IF Len(extraction_data.search_queries) = 0 THEN Ret(None)
    ELSE IF ctor.raised THEN Raise(ctor.msg)
    ELSE IF found.raised THEN Raise(found.msg)
    ELSE IF Len(found.value) = 0 THEN Ret(None)
    ELSE Ret(Some(SearchResult(found.value)))

run_pipeline(download_result, extraction_result, ctor, found) ==
    IF IsNone(download_result.value) \/ ~download_result.value[1].success
    THEN Ret(None)
    ELSE IF extraction_result.raised THEN Raise(extraction_result.msg)
    ELSE IF IsNone(extraction_result.value) THEN Ret(None)
    ELSE search_from_extraction_data(extraction_result.value[1], ctor, found)

\* What the calls of run_pipeline can come to. The dispatcher reads neither
\* the text of an exception nor the number of URLs, so one failure text and
\* the full URL list stand for the others.
PipelineResults ==
    { run_pipeline(d, x, c, f) :
        d \in download_from_cdn, x \in extract_from_file_path,
        c \in { Ret(None) },
        f \in { Ret(<< >>), Ret([i \in 1..MaxUrls |-> i]), Raise(RateLimitBody) } }

(***************************************************************************)
(* process_pipeline_in_background: the messages the thread sends for what  *)
(* run_pipeline came to.                                                   *)
(***************************************************************************)
\* a variant that answers whoever the newest thread was started for
process_pipeline_in_background_newest(cdn_url, session_id, sender_id, result) ==
    << Message(threads[Len(threads)].sender_id,
               IF result.raised \/ IsNone(result.value) THEN WentWrongText
               ELSE PipelineFailedText,
               << >>) >>

\* a variant without the handler of `except Exception': a fault ends the
\* thread before it sends anything
process_pipeline_in_background_uncaught(cdn_url, session_id, sender_id, result) ==
    IF result.raised \/ IsNone(result.value) THEN << >>
    ELSE IF result.value[1].completed_successfully = Some(TRUE)
    THEN send_product_results(sender_id,
                              IF IsNone(result.value[1].product_urls) THEN << >>
                              ELSE result.value[1].product_urls[1])
    ELSE << Message(sender_id, PipelineFailedText, << >>) >>

process_pipeline_in_background(cdn_url, session_id, sender_id, result) ==
    IF result.raised
    THEN << Message(sender_id, WentWrongText, << >>) >>
    ELSE IF IsNone(result.value)
    \* result.get on None raises AttributeError, caught by the same handler
    THEN << Message(sender_id, WentWrongText, << >>) >>
    ELSE IF result.value[1].completed_successfully = Some(TRUE)
    THEN send_product_results(sender_id,
                              IF IsNone(result.value[1].product_urls) THEN << >>
                              ELSE result.value[1].product_urls[1])
    ELSE << Message(sender_id, PipelineFailedText, << >>) >>

(***************************************************************************)
(* POST /webhook.                                                          *)
(***************************************************************************)
\* a messaging event of the request body
EventSenders == { None } \cup { Some(u) : u \in Senders \cup { BotId } }

\* mid, is_echo and the attachments are keys of event['message']
Events ==
    [sender : EventSenders, has_message : { FALSE }, mid : { None },
     is_echo : { FALSE }, has_read : BOOLEAN, cdn_url : { None }]
    \cup
    [sender : EventSenders, has_message : { TRUE },
     mid : { None } \cup { Some(m) : m \in MsgIds },
     is_echo : BOOLEAN, has_read : BOOLEAN,
     \* an attachment whose payload.url is a lookaside.fbsbx.com URL
     cdn_url : { None, Some("cdn") }]

\* the body of a POST: not JSON, another object, or entries with events
Bodies == { "malformed", "other", "events" }

\* a thread running process_pipeline_in_background with these arguments;
\* `event' is the admission it was started for
\* a thread that has run to its end when start() returns
Thread_joined(cdn_url, session_id, sender_id, k) ==
    [cdn_url |-> cdn_url, session_id |-> session_id, sender_id |-> sender_id,
     event |-> k, pc |-> "done", result |-> Ret(None)]

Thread(cdn_url, session_id, sender_id, k) ==
    [cdn_url |-> cdn_url, session_id |-> session_id, sender_id |-> sender_id,
     event |-> k, pc |-> "started", result |-> Ret(None)]

\* the calls `msgs' of send_message_to_user, as made for admission k
Sent(msgs, k) == [i \in 1..Len(msgs) |-> [event |-> k, msg |-> msgs[i]]]

\* a variant that reports a fault of the handler to the platform
EventReceived500(fault) == IF fault THEN 500 ELSE 200

\* Response('EVENT_RECEIVED', status=200), after the events and in the
\* handler of `except Exception' alike
EventReceived(fault) == 200

\* The handler takes the request: signature check, then the body. A body
\* that is not JSON, or is no instagram/page object, or has no messaging
\* events, is answered at once; otherwise the events are handled in turn.
Post(signature, body) ==
    /\ ~pending
    /\ IF config.ENABLE_SIGNATURE_VERIFICATION
          /\ ~verify_webhook_signature(config, signature)
       THEN response' = 401 /\ pending' = FALSE
       ELSE IF body # "events"
       THEN response' = EventReceived(body = "malformed") /\ pending' = FALSE
       ELSE response' = 0 /\ pending' = TRUE
    /\ UNCHANGED << processed_messages, inserted, duplicates, threads, outbox, config >>
    /\ UNCHANGED << pipeline_vars, call_vars >>

ReceivePost == \E signature \in Signatures, body \in Bodies : Post(signature, body)

\* One turn of `for event in entry['messaging']'; `last' tells whether the
\* event was the last of the request. The request is answered 200 after its
\* last event, and at once when the body of the loop raises.
HandleCore(event, last) ==
    /\ pending
    /\ LET sender_id == event.sender
           message_id == IF IsNone(event.mid) THEN unknown ELSE event.mid[1]
           next ==
               /\ pending' = ~last
               /\ response' = IF last THEN EventReceived(FALSE) ELSE response
           abort == pending' = FALSE /\ response' = EventReceived(TRUE)
           skip == next /\ UNCHANGED << processed_messages, inserted, threads, outbox >>
           k == Len(inserted) + 1
       IN  IF sender_id = config.INSTAGRAM_BUSINESS_ACCOUNT_ID
           THEN skip /\ UNCHANGED duplicates
           ELSE IF ~event.has_message THEN skip /\ UNCHANGED duplicates
           ELSE IF event.is_echo \/ event.has_read THEN skip /\ UNCHANGED duplicates
           ELSE IF is_message_processed(message_id)
           THEN skip /\ duplicates' = duplicates \cup { message_id }
           ELSE
             /\ UNCHANGED duplicates
             /\ Len(inserted) < MaxAdmissions
             /\ \E victim \in processed_messages \cup { message_id } :
                   processed_messages' =
                       mark_message_processed(processed_messages, message_id, victim)
             /\ inserted' = Append(inserted, message_id)
             /\ outbox' = outbox \o Sent(send_acknowledgment(sender_id, event.cdn_url), k)
             /\ IF IsNone(event.cdn_url)
                THEN next /\ UNCHANGED threads
                ELSE IF IsNone(sender_id)
                \* name=f"Pipeline-{sender_id[:8]}" raises TypeError on None
                THEN abort /\ UNCHANGED threads
                ELSE /\ threads' = Append(threads,
                                          Thread(event.cdn_url, message_id, sender_id, k))
                     /\ next
    /\ UNCHANGED config
    /\ UNCHANGED pipeline_vars

HandleEvent ==
    \E event \in Events, last \in BOOLEAN :
        HandleCore(event, last) /\ UNCHANGED call_vars

\* A pipeline thread runs: run_pipeline, then the outcome to its sender.
ThreadRun ==
    \E i \in 1..Len(threads) :
        /\ threads[i].pc = "started"
        /\ \E result \in PipelineResults :
              /\ threads' = [threads EXCEPT ![i].pc = "done", ![i].result = result]
              /\ outbox' = outbox \o
                    Sent(process_pipeline_in_background(
                             threads[i].cdn_url, threads[i].session_id,
                             threads[i].sender_id, result),
                         threads[i].event)
        /\ UNCHANGED << processed_messages, inserted, duplicates, pending, response,
                        config >>
        /\ UNCHANGED << pipeline_vars, call_vars >>

PipelineIdle ==
    /\ state = initial_state
    /\ node = "idle"
    /\ attempts = 0
    /\ trace = << >>

DispatcherInit ==
    /\ config = Deployed
    /\ processed_messages = {}
    /\ inserted = << >>
    /\ duplicates = {}
    /\ pending = FALSE
    /\ threads = << >>
    /\ outbox = << >>
    /\ response = 0
    /\ PipelineIdle
    /\ NoCall

DispatcherNext == ReceivePost \/ HandleEvent \/ ThreadRun

\* the webhook service: requests, their events, and the pipeline threads
Spec == DispatcherInit /\ [][DispatcherNext]_vars

(***************************************************************************)
(* The ledger on its own: any sequence of mark_message_processed calls,    *)
(* the identifier new to the ledger or not (two handlers that both looked  *)
(* an identifier up before either added it both add it).                   *)
(***************************************************************************)
LedgerIds == 0..(MAX_PROCESSED_MESSAGES + 1)

Mark ==
    /\ Len(inserted) < MaxMarks
    /\ \E message_id \in LedgerIds :
          /\ \E victim \in processed_messages \cup { message_id } :
                processed_messages' =
                    mark_message_processed(processed_messages, message_id, victim)
          /\ inserted' = Append(inserted, message_id)
    /\ UNCHANGED << config, duplicates, pending, threads, outbox, response >>
    /\ UNCHANGED << pipeline_vars, call_vars >>

LedgerInit == DispatcherInit

LedgerNext == Mark

LedgerSpec == LedgerInit /\ [][LedgerNext]_vars

(***************************************************************************)
(* Properties of the dispatcher.                                           *)
(***************************************************************************)
AllIds == MsgIds \cup { unknown }
AckTexts == { AckMediaText, AckPlainText }
Admissions == 1..Len(inserted)

\* the acknowledgments, and the other messages, sent for admission k
Acks(k) == SelectSeq(outbox, LAMBDA c : c.event = k /\ c.msg.text \in AckTexts)
Outcomes(k) == SelectSeq(outbox, LAMBDA c : c.event = k /\ c.msg.text \notin AckTexts)
\* the pipeline threads started for admission k
Runs(k) == SelectSeq(threads, LAMBDA t : t.event = k)
\* the admissions of message identifier m
AdmissionsOf(m) == { k \in Admissions : inserted[k] = m }
\* the position in the outbox of the first call made for admission k as `texts'
First(k, texts) ==
    CHOOSE i \in 1..Len(outbox) :
        /\ outbox[i].event = k /\ outbox[i].msg.text \in texts
        /\ \A j \in 1..(i - 1) : ~(outbox[j].event = k /\ outbox[j].msg.text \in texts)

\* one final outcome: one notice, or the chunks of one list of links
OneOutcome(k) ==
    LET o == Outcomes(k)
    IN  /\ Len(o) >= 1
        /\ o[1].msg.text # LinksText => Len(o) = 1
        /\ o[1].msg.text = LinksText => \A i \in 1..Len(o) : o[i].msg.text = LinksText

\* C1: A delivery of a message identifier that is still in the ledger causes
\* no message, no run and no new admission; and an admitted event with a media
\* URL and a sender id has one acknowledgment, one pipeline run and, once that
\* run is over, one final outcome. So such an event delivered twice in sequence
\* has one run, one acknowledgment and one outcome.
C1_IdempotentAdmission ==
    /\ [][\A m \in AllIds :
            m \in processed_messages =>
              /\ AdmissionsOf(m)' = AdmissionsOf(m)
              /\ \A k \in AdmissionsOf(m) :
                    /\ Acks(k)' = Acks(k)
                    /\ Runs(k)' = Runs(k) \/ (Len(Runs(k)) = 1 /\ Len(Runs(k)') = 1)
                    /\ Len(Outcomes(k)') > Len(Outcomes(k)) =>
                          Runs(k)[1].pc = "started" /\ Runs(k)'[1].pc = "done"]_vars
    /\ [](\A k \in Admissions :
            /\ Len(Acks(k)) = 1
            /\ Len(Runs(k)) <= 1
            /\ (Acks(k)[1].msg.text = AckMediaText /\ ~IsNone(Acks(k)[1].msg.to)) =>
                  Len(Runs(k)) = 1
            /\ Len(Runs(k)) = 1 =>
                  IF Runs(k)[1].pc = "done" THEN OneOutcome(k) ELSE Len(Outcomes(k)) = 0
            /\ Len(Runs(k)) = 0 => Len(Outcomes(k)) = 0)

\* an event with a media URL was admitted, its run is over, and its identifier
\* was delivered again while in the ledger: one acknowledgment, one run, one
\* outcome
C1_Witness ==
    \E m \in duplicates :
        /\ Cardinality(AdmissionsOf(m)) = 1
        /\ \A k \in AdmissionsOf(m) :
              /\ Len(Runs(k)) = 1 /\ Runs(k)[1].pc = "done"
              /\ Len(Acks(k)) = 1 /\ Acks(k)[1].msg.text = AckMediaText
              /\ OneOutcome(k)

\* the threads whose run_pipeline came through all three stages with URLs
Succeeded(t) == t.pc = "done" /\ ~t.result.raised /\ ~IsNone(t.result.value)

\* the URLs of the messages, in order
RECURSIVE UrlsOf(_)
UrlsOf(calls) ==
    IF Len(calls) = 0 THEN << >> ELSE calls[1].msg.urls \o UrlsOf(Tail(calls))

\* C4: When download, extraction and search all succeed and the search returns
\* URLs, the task sends its sender, after the acknowledgment, messages of links
\* holding exactly those URLs, and no failure notice.
C4_EndToEndSuccess ==
    \A i \in 1..Len(threads) :
        Succeeded(threads[i]) =>
          LET k == threads[i].event
              o == Outcomes(k)
          IN  /\ Len(o) >= 1
              /\ \A j \in 1..Len(o) :
                    o[j].msg.text = LinksText /\ o[j].msg.to = threads[i].sender_id
              /\ UrlsOf(o) = threads[i].result.value[1].product_urls[1]
              /\ First(k, AckTexts) < First(k, { LinksText })

\* C5: Every admitted event has exactly one acknowledgment and, once no thread
\* is at work on it, exactly one final outcome, with or without a media URL.
C5_AckAndOutcome ==
    \A k \in Admissions :
        /\ Len(Acks(k)) = 1
        /\ IF \E i \in 1..Len(threads) :
                 threads[i].event = k /\ threads[i].pc = "started"
           THEN Len(Outcomes(k)) = 0
           ELSE OneOutcome(k)

\* the identifiers ever added to the ledger
Inserted == { inserted[k] : k \in Admissions }

\* C6: After any sequence of mark_message_processed calls the ledger holds at
\* most MAX_PROCESSED_MESSAGES identifiers: all that were added while they are
\* no more than that, and exactly that many once more distinct ones were added.
C6_LedgerSize ==
    /\ Cardinality(processed_messages) <= MAX_PROCESSED_MESSAGES
    /\ Cardinality(Inserted) > MAX_PROCESSED_MESSAGES =>
          Cardinality(processed_messages) = MAX_PROCESSED_MESSAGES
    /\ Cardinality(Inserted) <= MAX_PROCESSED_MESSAGES => processed_messages = Inserted

\* more distinct identifiers were added than the ledger holds
C6_Witness ==
    /\ Cardinality(Inserted) = MAX_PROCESSED_MESSAGES + 1
    /\ Cardinality(processed_messages) = MAX_PROCESSED_MESSAGES

\* C7: The ledger holds the identifiers added last: an addition over the bound
\* evicts the earliest one still present, and the later ones stay duplicates.
C7_EvictionFIFO ==
    processed_messages =
        { inserted[k] : k \in { j \in Admissions :
                                  j > Len(inserted) - MAX_PROCESSED_MESSAGES } }

\* a result of run_pipeline that is a rate-limit failure of the search: the
\* RateLimitError that search_products re-raises comes out of run_pipeline
RateLimitFailure(r) == r.raised /\ is_rate_limit_error(r.msg)
\* any other failure: another exception, or None
OtherFailure(r) == ~RateLimitFailure(r) /\ (r.raised \/ IsNone(r.value))

\* C11: The message a task sends after a rate-limited search differs from the
\* message a task sends after any other pipeline failure.
C11_RateLimitNotice ==
    \A i \in 1..Len(threads) :
        (threads[i].pc = "done" /\ RateLimitFailure(threads[i].result)) =>
          \A r \in { q \in PipelineResults : OtherFailure(q) } :
            LET sent == Outcomes(threads[i].event)
                other == process_pipeline_in_background(
                             threads[i].cdn_url, threads[i].session_id,
                             threads[i].sender_id, r)
            IN  \A a \in 1..Len(sent), b \in 1..Len(other) :
                  sent[a].msg.text # other[b].text

\* C12: Whatever the interleaving of the pipeline tasks, every message a task
\* sends goes to the sender identifier the task was started with, which is the
\* sender of the event it was started for.
C12_ResultRouting ==
    \A i \in 1..Len(threads) :
        LET k == threads[i].event
            sent == Outcomes(k)
        IN  /\ \A a \in 1..Len(sent) : sent[a].msg.to = threads[i].sender_id
            /\ threads[i].sender_id = Acks(k)[1].msg.to

\* two tasks for different senders ran at the same time (the one started last
\* answered first) and both have answered
C12_Witness ==
    \E i, j \in 1..Len(threads) :
        /\ i < j
        /\ threads[i].sender_id # threads[j].sender_id
        /\ threads[i].pc = "done" /\ threads[j].pc = "done"
        /\ First(threads[j].event, { WentWrongText, PipelineFailedText })
             < First(threads[i].event, { WentWrongText, PipelineFailedText })

\* a signature header that is missing or is not the HMAC-SHA256 of the body
\* under the app secret
BadSignature(signature) == signature = "" \/ StripPrefix(signature) # "hmac(secret,body)"

\* C13: With signature verification enabled, a POST whose signature header is
\* missing or wrong is answered 401 and none of its events is handled: the
\* ledger, the messages sent and the threads stay as they were.
C13_AuthenticatedAdmission ==
    [][\A signature \in Signatures, body \in Bodies :
          (/\ config.ENABLE_SIGNATURE_VERIFICATION
           /\ BadSignature(signature)
           /\ Post(signature, body)) =>
             /\ response' = 401
             /\ ~pending'
             /\ UNCHANGED << processed_messages, inserted, threads, outbox >>]_vars

\* a request was rejected while the service had admitted events before it
C13_Witness == response = 401 /\ Len(inserted) > 0 /\ Len(threads) > 0

\* C14: A POST that passes the signature check is answered 200 and nothing
\* else, whether its body is malformed, its events lack fields, or the
\* handling of an event raises.
C14_AlwaysAcknowledged ==
    /\ [][\A signature \in Signatures, body \in Bodies :
            (verify_webhook_signature(config, signature) /\ Post(signature, body)) =>
               IF pending' THEN response' = 0 ELSE response' = 200]_vars
    /\ [][(pending /\ ~pending') => response' = 200]_vars
    /\ [](response \in { 0, 200, 401 })

\* a request was answered 200 after the handling of one of its events raised:
\* the event was acknowledged and no thread was started for it
C14_Witness ==
    /\ response = 200
    /\ ~pending
    /\ \E k \in Admissions :
          /\ Acks(k)[1].msg.text = AckMediaText
          /\ Len(Runs(k)) = 0

(***************************************************************************)
(* The candidate URLs of process_instagram_message (src/webhook_receiver.py): *)
(* the deduplication of expanded_urls into unique_urls.                    *)
(***************************************************************************)
\* a URL by its parts; the path is the sequence of its segments
Url(scheme, netloc, path, query) ==
    [scheme |-> scheme, netloc |-> netloc, path |-> path, query |-> query]

CandidateUrls ==
    { Url("https", "shop.example.com", << "/item", "/1" >>, ""),
      Url("https", "shop.example.com", << "/item", "/1" >>, "ref=ig"),
      Url("https", "SHOP.Example.com", << "/item", "/1" >>, ""),
      Url("http", "shop.example.com", << "/item", "/1" >>, ""),
      Url("https", "shop.example.com", << "/item", "/2" >>, ""),
      Url("https", "other.example", << "/item", "/1" >>, ""),
      Url("https", "[shop.example.com", << "/item", "/1" >>, "") }

\* urlparse(url): netloc and path, or ValueError for a netloc with an
\* unmatched bracket
urlparse(url) ==
    IF url.netloc = "[shop.example.com" THEN Raise("Invalid IPv6 URL")
    ELSE Ret([netloc |-> url.netloc, path |-> url.path])

\* str.lower() on the hosts of the model
lower(netloc) == IF netloc = "SHOP.Example.com" THEN "shop.example.com" ELSE netloc

\* a signature that tells URLs apart by their query string too
url_signature_with_query(url) ==
    << lower(urlparse(url).value.netloc) >> \o urlparse(url).value.path \o << url.query >>

\* f"{domain}{path}": the lower-cased netloc followed by the path
url_signature(url) ==
    << lower(urlparse(url).value.netloc) >> \o urlparse(url).value.path

\* whether url is one of the list
In(url, list) == \E i \in 1..Len(list) : list[i] = url

RECURSIVE DedupLoop(_, _, _)
\* for url in expanded_urls, with unique_urls and seen_domains so far
DedupLoop(urls, unique_urls, seen_domains) ==
    IF Len(urls) = 0 THEN unique_urls
    ELSE
      LET url == Head(urls)
      IN  IF urlparse(url).raised
          THEN IF ~In(url, unique_urls)
               THEN DedupLoop(Tail(urls), Append(unique_urls, url), seen_domains)
               ELSE DedupLoop(Tail(urls), unique_urls, seen_domains)
          ELSE IF url_signature(url) \notin seen_domains
          THEN DedupLoop(Tail(urls), Append(unique_urls, url),
                         seen_domains \cup { url_signature(url) })
          ELSE DedupLoop(Tail(urls), unique_urls, seen_domains)

\* product_data.shop_urls for these expanded_urls
shop_urls(expanded_urls) == DedupLoop(expanded_urls, << >>, {})

RECURSIVE ListsOver(_, _)
\* the lists over S of length at most n
ListsOver(S, n) ==
    IF n = 0 THEN { << >> }
    ELSE { << >> } \cup { << x >> \o t : x \in S, t \in ListsOver(S, n - 1) }

DedupInit ==
    /\ call_args \in ListsOver(CandidateUrls, MaxCandidates)
    /\ call_result = None
    /\ handlers = << >>
    /\ PipelineIdle
    /\ DispatcherIdle

Deduplicate ==
    /\ call_result = None
    /\ call_result' = Some(shop_urls(call_args))
    /\ UNCHANGED << call_args, handlers, pipeline_vars, dispatcher_vars >>

DedupNext == Deduplicate

DedupSpec == DedupInit /\ [][DedupNext]_vars

\* the signature of a URL that parses: lower-cased host and path, no query
HostAndPath(url) == << lower(url.netloc), url.path >>
Parses(url) == ~urlparse(url).raised

\* C15: The URL list never holds two URLs of the same (lower-cased host, path);
\* the first URL of the input with a given host and path is the one kept, and
\* nothing is kept that did not come in; and deduplicating the list again changes nothing.
C15_CandidateDedup ==
    call_result # None =>
      LET out == call_result[1]
      IN  /\ \A i, j \in 1..Len(out) :
                (i < j /\ Parses(out[i]) /\ Parses(out[j])) =>
                  HostAndPath(out[i]) # HostAndPath(out[j])
          /\ \A i \in 1..Len(call_args) :
                Parses(call_args[i]) =>
                  ((~\E j \in 1..(i - 1) :
                         /\ Parses(call_args[j])
                         /\ HostAndPath(call_args[j]) = HostAndPath(call_args[i]))
                     => In(call_args[i], out))
          /\ \A k \in 1..Len(out) : In(out[k], call_args)
          /\ shop_urls(out) = out

\* a URL and the same URL with a query string came in, the first one came out
C15_Witness ==
    /\ call_args = << Url("https", "shop.example.com", << "/item", "/1" >>, ""),
                      Url("https", "shop.example.com", << "/item", "/1" >>, "ref=ig") >>
    /\ call_result = Some(<< Url("https", "shop.example.com", << "/item", "/1" >>, "") >>)

(***************************************************************************)
(* GET /webhook: verify_webhook.                                           *)
(***************************************************************************)
\* request.args.get(...) is None when the parameter is absent
Modes == { None, Some("subscribe"), Some("unsubscribe") }
Tokens == { None, Some(""), Some("verify-token"), Some("wrong-token") }
Challenges == { None, Some("1158201444"), Some("abc") }
\* os.environ.get('VERIFY_TOKEN')
VerifyTokens == { None, Some(""), Some("verify-token") }

\* Response(body, status): a body of None is the empty body
Response(body, status) ==
    [status |-> status, body |-> IF IsNone(body) THEN "" ELSE body[1]]

\* a verification that does not look at hub.mode
verify_webhook_any_mode(VERIFY_TOKEN, mode, token, challenge) ==
    IF token = VERIFY_TOKEN THEN Response(challenge, 200)
    ELSE Response(Some("Forbidden"), 403)

verify_webhook(VERIFY_TOKEN, mode, token, challenge) ==
    IF mode = Some("subscribe") /\ token = VERIFY_TOKEN
    THEN Response(challenge, 200)
    ELSE Response(Some("Forbidden"), 403)

VerifyInit ==
    /\ call_args \in [VERIFY_TOKEN : VerifyTokens, mode : Modes,
                      token : Tokens, challenge : Challenges]
    /\ call_result = None
    /\ handlers = << >>
    /\ PipelineIdle
    /\ DispatcherIdle

GetWebhook ==
    /\ call_result = None
    /\ call_result' = Some(verify_webhook(call_args.VERIFY_TOKEN, call_args.mode,
                                          call_args.token, call_args.challenge))
    /\ UNCHANGED << call_args, handlers, pipeline_vars, dispatcher_vars >>

VerifyNext == GetWebhook

VerifySpec == VerifyInit /\ [][VerifyNext]_vars

\* the text of a parameter, empty when it is absent
Echo(challenge) == IF challenge = None THEN "" ELSE challenge[1]

\* C19: GET /webhook answers 200 with the hub.challenge parameter as its body
\* exactly when hub.mode is 'subscribe' and hub.verify_token equals the
\* configured verify token; every other request is answered 403.
C19_ChallengeResponse ==
    call_result # None =>
      LET answer == call_result[1]
          verified == /\ call_args.mode = Some("subscribe")
                      /\ call_args.token = call_args.VERIFY_TOKEN
      IN  /\ (answer.status = 200 /\ answer.body = Echo(call_args.challenge)) <=> verified
          /\ ~verified => answer.status = 403
          /\ answer.status \in { 200, 403 }

\* a subscription with the right token was answered with its challenge
C19_Witness ==
    /\ call_result # None
    /\ call_args.VERIFY_TOKEN = Some("verify-token")
    /\ call_args.token = Some("verify-token")
    /\ call_args.challenge = Some("1158201444")
    /\ call_result[1] = [status |-> 200, body |-> "1158201444"]

(***************************************************************************)
(* The search stage after a failed extraction.                             *)
(***************************************************************************)
\* the search node has returned in this run
SearchDone == node \in { "finalize", "END" }

\* C20: in a run where the extraction recorded an error, the search stage
\* invokes neither the searcher's constructor nor search_products, its log
\* entry has status skipped, it records no search error, and it leaves
\* product_urls empty and extraction_error as it was.
C20_ExtractFailurePropagation ==
    /\ []((SearchDone /\ ~IsNone(state.extraction_error)) =>
            /\ Count("ClaudeProductSearcher") = 0
            /\ Count("search_products") = 0
            /\ LogStatuses("search") = { "skipped" }
            /\ IsNone(state.search_error)
            /\ IsNone(state.search_error_type)
            /\ Len(state.product_urls) = 0)
    /\ [][(node = "search" /\ ~IsNone(state.extraction_error)) =>
            /\ state'.extraction_error = state.extraction_error
            /\ state'.product_urls = state.product_urls
            /\ Len(state'.logs) = Len(state.logs) + 1
            /\ node' = "finalize"]_vars

\* a run ended whose extraction failed and whose search was skipped
C20_Witness ==
    /\ RunEnded
    /\ state.extraction_error = Some(NoVlmResultMsg)
    /\ LogStatuses("search") = { "skipped" }
    /\ Count("node:search") = 1

(***************************************************************************)
(* A run under invoke(): the graph goes on to the next node as long as     *)
(* there is one, and every collaborator call returns or raises.            *)
(***************************************************************************)
PipelineFairSpec == PipelineSpec /\ WF_vars(PipelineNext)

\* the run is at one of the graph's nodes
RunStarted == node \in { "download", "extract", "search", "finalize" }

\* finalize has run: the end time is set and the success flag is computed
FinalizeRan ==
    /\ Count("node:finalize") = 1
    /\ state.pipeline_end_time = Some("now")
    /\ state.completed_successfully <=>
          (Len(state.errors) = 0 /\ Len(state.product_urls) > 0)
    /\ "finalize" \in { state.logs[i].stage : i \in 1..Len(state.logs) }

\* C17: every run that is started eventually executes finalize, whichever of
\* the earlier stages failed or were skipped; after it pipeline_end_time is set
\* and completed_successfully has been computed.
C17_FinalizeAlwaysRuns ==
    /\ RunStarted ~> (RunEnded /\ FinalizeRan)
    /\ (RunStarted /\ ~IsNone(state.download_error)) ~> (RunEnded /\ FinalizeRan)
    /\ (RunStarted /\ ~IsNone(state.extraction_error)) ~> (RunEnded /\ FinalizeRan)
    /\ (RunStarted /\ ~IsNone(state.search_error)) ~> (RunEnded /\ FinalizeRan)

\* a run whose download failed, ended by finalize
C17_Witness ==
    /\ RunEnded
    /\ FinalizeRan
    /\ state.download_error = Some(DownloadFailedMsg)
    /\ LogStatuses("extraction") = { "skipped" }
    /\ ~state.completed_successfully

(***************************************************************************)
(* Faults of a background task.                                            *)
(***************************************************************************)
\* run_pipeline raised, or returned what result.get() cannot be called on
Fault(r) == r.raised \/ IsNone(r.value)

\* C18: a fault raised while a background task runs is caught inside the task:
\* the task sends one generic failure message to the sender it was launched
\* with and ends, and nothing else of the dispatcher is touched by the fault.
C18_FaultContainment ==
    /\ [](\A i \in 1..Len(threads) :
            (threads[i].pc = "done" /\ Fault(threads[i].result)) =>
              LET sent == Outcomes(threads[i].event)
              IN  /\ Len(sent) = 1
                  /\ sent[1].msg.text = WentWrongText
                  /\ sent[1].msg.to = threads[i].sender_id)
    /\ [][\A i \in 1..Len(threads) :
            (/\ threads[i].pc = "started"
             /\ Len(threads') = Len(threads)
             /\ threads'[i].pc = "done"
             /\ Fault(threads'[i].result)) =>
              /\ \A j \in 1..Len(threads) : j # i => threads'[j] = threads[j]
              /\ Len(outbox') = Len(outbox) + 1
              /\ outbox'[Len(outbox')].msg.text = WentWrongText
              /\ UNCHANGED << processed_messages, inserted, pending, response >>]_vars

\* a task whose run raised has sent its notice, and a later task has delivered
C18_Witness ==
    \E i, j \in 1..Len(threads) :
        /\ i < j
        /\ threads[i].pc = "done" /\ threads[i].result.raised
        /\ Len(Outcomes(threads[i].event)) = 1
        /\ threads[j].pc = "done" /\ ~Fault(threads[j].result)
        /\ Len(Outcomes(threads[j].event)) >= 1

(***************************************************************************)
(* handle_webhook under the threaded server of app.run(): invocations run  *)
(* side by side, each delivering one message with an attachment. Between   *)
(* is_message_processed and mark_message_processed of one invocation the   *)
(* interpreter can switch to another; each call alone is one step.         *)
(***************************************************************************)
HandlerIds == 1..MaxHandlers

\* an invocation about to look its message up
Handler(mid, sender_id) == [mid |-> mid, sender_id |-> sender_id, pc |-> "lookup", event |-> 0]

ConcurrentInit ==
    /\ handlers \in [HandlerIds -> { Handler(m, u) : m \in MsgIds, u \in Senders }]
    /\ config = Deployed
    /\ processed_messages = {}
    /\ inserted = << >>
    /\ duplicates = {}
    /\ pending = FALSE
    /\ threads = << >>
    /\ outbox = << >>
    /\ response = 0
    /\ PipelineIdle
    /\ call_args = << >>
    /\ call_result = << >>

\* if is_message_processed(message_id): continue
Lookup(h) ==
    /\ handlers[h].pc = "lookup"
    /\ IF is_message_processed(handlers[h].mid)
       THEN /\ handlers' = [handlers EXCEPT ![h].pc = "skipped"]
            /\ duplicates' = duplicates \cup { handlers[h].mid }
       ELSE /\ handlers' = [handlers EXCEPT ![h].pc = "insert"]
            /\ UNCHANGED duplicates
    /\ UNCHANGED << config, processed_messages, inserted, pending, threads, outbox,
                    response >>
    /\ UNCHANGED << pipeline_vars, call_args, call_result >>

\* mark_message_processed(message_id)
Insert(h) ==
    /\ handlers[h].pc = "insert"
    /\ \E victim \in processed_messages \cup { handlers[h].mid } :
          processed_messages' =
              mark_message_processed(processed_messages, handlers[h].mid, victim)
    /\ inserted' = Append(inserted, handlers[h].mid)
    /\ handlers' = [handlers EXCEPT ![h].pc = "admitted", ![h].event = Len(inserted) + 1]
    /\ UNCHANGED << config, duplicates, pending, threads, outbox, response >>
    /\ UNCHANGED << pipeline_vars, call_args, call_result >>

\* send_acknowledgment, then pipeline_thread.start()
Admit(h) ==
    /\ handlers[h].pc = "admitted"
    /\ outbox' = outbox \o
          Sent(send_acknowledgment(Some(handlers[h].sender_id), Some("cdn")),
               handlers[h].event)
    /\ threads' = Append(threads, Thread(Some("cdn"), handlers[h].mid,
                                         Some(handlers[h].sender_id), handlers[h].event))
    /\ handlers' = [handlers EXCEPT ![h].pc = "done"]
    /\ UNCHANGED << config, processed_messages, inserted, duplicates, pending, response >>
    /\ UNCHANGED << pipeline_vars, call_args, call_result >>

ConcurrentNext == \E h \in HandlerIds : Lookup(h) \/ Insert(h) \/ Admit(h)

ConcurrentSpec == ConcurrentInit /\ [][ConcurrentNext]_vars

\* the invocation has found its message new and not yet inserted it
InLookupThenInsert(h) == handlers[h].pc = "insert"
\* the invocation has admitted its message
Admitted(h) == handlers[h].pc \in { "admitted", "done" }

\* C16: of two invocations of the handler that run side by side and deliver
\* the same message identifier, only one at a time is between its lookup and
\* its insert, and at most one admits the event: at most one acknowledgment
\* and one pipeline thread for that identifier.
C16_LedgerAtomicity ==
    \A g, h \in HandlerIds :
        (g # h /\ handlers[g].mid = handlers[h].mid) =>
            /\ ~(InLookupThenInsert(g) /\ InLookupThenInsert(h))
            /\ ~(Admitted(g) /\ Admitted(h))
            /\ Len(SelectSeq(threads, LAMBDA t : t.session_id = handlers[h].mid)) <= 1
            /\ Cardinality({ k \in AdmissionsOf(handlers[h].mid) : Len(Acks(k)) > 0 }) <= 1

(***************************************************************************)
(* The error slots and the log of a run.                                   *)
(***************************************************************************)
\* the positions of the log entries of a stage
LogEntries(stage) == { i \in 1..Len(state.logs) : state.logs[i].stage = stage }

\* C21: at the end of a run, for each of download, extraction and search, the
\* stage's error slot is set exactly when the stage produced no output; a
\* stage skipped after an upstream failure has its error slot set.
C21_ErrorSlots ==
    RunEnded =>
        /\ ~IsNone(state.download_error) <=> IsNone(state.media_file_path)
        /\ ~IsNone(state.extraction_error) <=> IsNone(state.product_info)
        /\ ~IsNone(state.search_error) <=> "success" \notin LogStatuses("search")

\* the stage called its collaborator in this run
Invoked(stage) ==
    CASE stage = "download" -> Count("download_from_cdn") > 0
      [] stage = "extraction" -> Count("prepare_media_for_extraction") > 0
      [] stage = "search" -> Count("ClaudeProductSearcher") > 0

\* C22: for every invocation of download, extraction or search the log gains
\* one entry with status started, appended before the collaborator is called,
\* and one entry with status success or error after it, carrying the duration.
C22_StartedAndFinished ==
    RunEnded =>
        \A stage \in { "download", "extraction", "search" } :
            Invoked(stage) =>
                /\ Cardinality({ i \in LogEntries(stage) :
                                    state.logs[i].status = "started" }) = 1
                /\ Cardinality({ i \in LogEntries(stage) :
                                    /\ state.logs[i].status \in { "success", "error" }
                                    /\ state.logs[i].has_duration }) = 1
                /\ \A i, j \in LogEntries(stage) :
                      (state.logs[i].status = "started" /\ state.logs[j].status # "started")
                          => i < j

\* C23: the log has one entry per stage attempt: when the search stage calls
\* search_products twice because the first call was rate limited, the log has
\* two search entries.
C23_EntryPerAttempt ==
    (RunEnded /\ Count("search_products") > 0) =>
        Cardinality(LogEntries("search")) = Count("search_products")

\* C24: every entry of the log, the one of finalize included, has a status in
\* started, success, error, skipped.
C24_LogStatusDomain ==
    \A i \in 1..Len(state.logs) :
        state.logs[i].status \in { "started", "success", "error", "skipped" }

(***************************************************************************)
(* The temporary artifacts of a run.                                       *)
(***************************************************************************)
\* The media file of the run is on disk: download_from_cdn wrote it and
\* cleanup_processed_files, the only code that unlinks it, was not called.
MediaFileExists ==
    /\ ~IsNone(state.media_file_path)
    /\ Count("cleanup_processed_files") = 0

\* C25: after finalize none of the temporary artifacts the run created still
\* exists, also when the download succeeded and the extraction then failed.
C25_ArtifactCleanup == RunEnded => ~MediaFileExists

(***************************************************************************)
(* The paths two runs write: download_from_cdn (src/cdn_download.py) and   *)
(* extract_frames_from_video (vlm_utils.py).                               *)
(***************************************************************************)
AssetIds == { "unknown", "1158201444" }
ContentTypes == { "image/jpeg", "video/mp4", "application/octet-stream" }
\* datetime.now(): the second and the microseconds within it
Instants == [second : 0..1, microsecond : { 0, 500000 }]

\* extension and media type for a Content-Type header
extension(content_type) ==
    CASE content_type = "image/jpeg" -> ".jpg"
      [] content_type = "video/mp4" -> ".mp4"
      [] OTHER -> ".bin"
media_type(content_type) ==
    CASE content_type = "image/jpeg" -> "image"
      [] content_type = "video/mp4" -> "video"
      [] OTHER -> "unknown"

\* strftime('%Y%m%d_%H%M%S'): the instant to the second
strftime(now) == now.second

\* os.path.join(output_dir, f"cdn_download_{asset_id}_{timestamp}{extension}")
filepath(asset_id, now, content_type) ==
    [dir |-> "downloads", stem |-> << "cdn_download", asset_id, strftime(now) >>,
     suffix |-> extension(content_type)]

\* FRAMES_DIR / f"{video_path.stem}_frame_{extracted:03d}.jpg"
frame_path(video_path, extracted) ==
    [dir |-> "extracted_frames", stem |-> video_path.stem \o << "frame", extracted >>,
     suffix |-> ".jpg"]

\* the paths a run writes: its media file and, for a video, its first frame
written_paths(asset_id, now, content_type) ==
    LET file == filepath(asset_id, now, content_type)
    IN  IF media_type(content_type) = "video" THEN { file, frame_path(file, 0) }
        ELSE { file }

Runs2 == 1..2

ArtifactInit ==
    /\ call_args \in [Runs2 -> [asset_id : AssetIds, now : Instants,
                                 content_type : ContentTypes]]
    /\ call_result = None
    /\ handlers = << >>
    /\ PipelineIdle
    /\ DispatcherIdle

\* both runs download and prepare their media
WriteArtifacts ==
    /\ call_result = None
    /\ call_result' = Some([r \in Runs2 |->
                              written_paths(call_args[r].asset_id, call_args[r].now,
                                            call_args[r].content_type)])
    /\ UNCHANGED << call_args, handlers, pipeline_vars, dispatcher_vars >>

ArtifactNext == WriteArtifacts

ArtifactSpec == ArtifactInit /\ [][ArtifactNext]_vars

\* C26: the artifact paths two runs write are disjoint, also for two runs for
\* the same media asset started within the same second.
C26_ArtifactIsolation ==
    call_result # None => call_result[1][1] \cap call_result[1][2] = {}

(***************************************************************************)
(* The order of the stages of a run.                                       *)
(***************************************************************************)
StageOrder == << "download", "extraction", "search", "finalize" >>
NodeOrder == << "node:download", "node:extraction", "node:search", "node:finalize" >>

\* the nodes entered so far, in order
NodesEntered ==
    LET entries == SelectSeq(trace, LAMBDA e : \E i \in 1..4 : e.ev = NodeOrder[i])
    IN  [i \in 1..Len(entries) |-> entries[i].ev]
\* the stages of the log entries, in order
StagesLogged == [i \in 1..Len(state.logs) |-> state.logs[i].stage]

IsPrefix(p, q) == Len(p) <= Len(q) /\ \A i \in 1..Len(p) : p[i] = q[i]

\* the node the graph is at, as a position in the order (5: after the last)
Position ==
    CASE node = "download" -> 1 [] node = "extract" -> 2 [] node = "search" -> 3
      [] node = "finalize" -> 4 [] OTHER -> 5

\* C27: within one run the stages are entered in the order download,
\* extraction, search, finalize, each once and one at a time: the nodes entered
\* are those before the node the graph is at; the stages of the log entries
\* appear in the same order.
C27_StageOrdering ==
    /\ IsPrefix(NodesEntered, NodeOrder)
    /\ IsPrefix(StagesLogged, StageOrder)
    /\ node \in { "download", "extract", "search", "finalize", "END" } =>
          /\ Len(NodesEntered) = Position - 1
          /\ Len(StagesLogged) = Position - 1
    /\ RunEnded => NodesEntered = NodeOrder /\ StagesLogged = StageOrder

\* a successful run has gone through the four stages
C27_Witness ==
    /\ RunEnded
    /\ NodesEntered = NodeOrder
    /\ StagesLogged = StageOrder
    /\ state.completed_successfully

(***************************************************************************)
(* The dispatcher while runs are executing.                                *)
(***************************************************************************)
\* a turn of the event loop that admits an event and starts its thread
AdmitAndLaunch == HandleEvent /\ Len(threads') = Len(threads) + 1

\* the threads still running
Executing == { i \in 1..Len(threads) : threads[i].pc = "started" }

\* C28: handle_webhook answers 200 for an admitted event without waiting for
\* the event's pipeline run: the thread it starts is still running when the
\* handler goes on, the answer leaves the running threads running, and while
\* runs are executing a further event can be admitted and its run launched.
C28_NonBlockingDispatch ==
    /\ [][Len(threads') = Len(threads) + 1 =>
            /\ threads'[Len(threads')].pc = "started"
            /\ \A i \in 1..Len(threads) : threads'[i] = threads[i]
            /\ pending' \/ response' = 200]_vars
    /\ [][(pending /\ ~pending') =>
            /\ response' = 200
            /\ \A i \in Executing : threads'[i].pc = "started"]_vars
    /\ []((pending /\ Len(inserted) < MaxAdmissions) => ENABLED AdmitAndLaunch)
    /\ [](~pending => ENABLED ReceivePost)

\* the handler has answered while the runs of two admitted events go on
C28_Witness ==
    /\ ~pending
    /\ response = 200
    /\ Len(threads) = 2
    /\ Executing = { 1, 2 }
    /\ Len(outbox) = 2

(***************************************************************************)
(* The event loop of one request, with the events it has handled:          *)
(* call_args is entry['messaging'] up to the event being handled.          *)
(***************************************************************************)
EventLoopInit ==
    /\ config = Deployed
    /\ processed_messages = {}
    /\ inserted = << >>
    /\ duplicates = {}
    /\ pending = TRUE
    /\ threads = << >>
    /\ outbox = << >>
    /\ response = 0
    /\ PipelineIdle
    /\ call_args = << >>
    /\ call_result = << >>
    /\ handlers = << >>

HandleRecorded ==
    /\ Len(call_args) < MaxEvents
    /\ \E event \in Events, last \in BOOLEAN :
          /\ HandleCore(event, last)
          /\ call_args' = Append(call_args, event)
    /\ UNCHANGED << call_result, handlers >>

EventLoopNext == HandleRecorded

EventLoopSpec == EventLoopInit /\ [][EventLoopNext]_vars

\* a content message: not from the bot's account, no echo, no read receipt
Content(event) ==
    /\ event.has_message
    /\ ~event.is_echo
    /\ ~event.has_read
    /\ event.sender # Some(BotId)

\* C29: two content events that both lack a message identifier and differ in
\* their sender get different dedup keys, so both are admitted: each has its
\* own acknowledgment and, with media, its own pipeline thread.
C29_MissingIdentifier ==
    \A i, j \in 1..Len(call_args) :
        (/\ i < j
         /\ Content(call_args[i]) /\ Content(call_args[j])
         /\ IsNone(call_args[i].mid) /\ IsNone(call_args[j].mid)
         /\ ~IsNone(call_args[i].sender) /\ ~IsNone(call_args[j].sender)
         /\ call_args[i].sender # call_args[j].sender) =>
            /\ Len(inserted) = 2
            /\ Len(Acks(1)) = 1 /\ Acks(1)[1].msg.to = call_args[i].sender
            /\ Len(Acks(2)) = 1 /\ Acks(2)[1].msg.to = call_args[j].sender
            /\ ~IsNone(call_args[i].cdn_url) => Len(Runs(1)) = 1
            /\ ~IsNone(call_args[j].cdn_url) => Len(Runs(2)) = 1

\* an event the handler skips: from the bot's own account, an echo, or a
\* read receipt
Skipped(event) == event.sender = Some(BotId) \/ event.is_echo \/ event.has_read

\* the dedup key of an event
KeyOf(event) == IF IsNone(event.mid) THEN unknown ELSE event.mid[1]

\* C30: an event from the bot's own account, an echo or a read receipt causes
\* no acknowledgment, no pipeline thread and no ledger insertion, and a later
\* content message with the same identifier is admitted all the same.
C30_SkippedNoEffect ==
    /\ [][\A event \in Events, last \in BOOLEAN :
            (Skipped(event) /\ HandleCore(event, last)) =>
                UNCHANGED << processed_messages, inserted, duplicates, threads, outbox >>]_vars
    /\ [](\A j \in 1..Len(call_args) :
            (/\ Content(call_args[j])
             /\ \A i \in 1..(j - 1) :
                   KeyOf(call_args[i]) = KeyOf(call_args[j]) => Skipped(call_args[i])) =>
                KeyOf(call_args[j]) \in { inserted[k] : k \in Admissions })

\* an echo of message 1 was skipped, then message 1 itself was admitted
C30_Witness ==
    /\ Len(call_args) = 2
    /\ call_args[1].is_echo /\ call_args[1].mid = Some(1)
    /\ Content(call_args[2]) /\ call_args[2].mid = Some(1)
    /\ inserted = << 1 >>
    /\ Len(outbox) = 1
    /\ Len(threads) = 1

(***************************************************************************)
(* The acknowledgment and the thread of an admitted event.                 *)
(***************************************************************************)
\* the positions in `box' of the acknowledgments, and of the other messages,
\* of admission k
AckAt(box, k) ==
    { a \in 1..Len(box) : box[a].event = k /\ box[a].msg.text \in AckTexts }
OutcomeAt(box, k) ==
    { a \in 1..Len(box) : box[a].event = k /\ box[a].msg.text \notin AckTexts }

\* C31: for every admitted event the acknowledgment is sent before the
\* pipeline thread of the event is started, hence before any result or
\* failure message for the event.
C31_AckBeforeWork ==
    /\ [][Len(threads') = Len(threads) + 1 =>
            LET k == threads'[Len(threads')].event
            IN  /\ AckAt(outbox', k) # {}
                /\ OutcomeAt(outbox', k) = {}]_vars
    /\ [](\A i \in 1..Len(threads) :
            LET k == threads[i].event
            IN  /\ AckAt(outbox, k) # {}
                /\ \A a \in AckAt(outbox, k), b \in OutcomeAt(outbox, k) : a < b)
    /\ [](\A k \in Admissions : OutcomeAt(outbox, k) # {} => AckAt(outbox, k) # {})

\* a thread has sent its failure notice, after the acknowledgment of its event
C31_Witness ==
    \E i \in 1..Len(threads) :
        LET k == threads[i].event
        IN  /\ threads[i].pc = "done"
            /\ \E a \in AckAt(outbox, k), b \in OutcomeAt(outbox, k) :
                  a < b /\ outbox[b].msg.text = PipelineFailedText

(***************************************************************************)
(* A stage function taken on its own, with collaborators that may raise    *)
(* anything: what the `except Exception' of each node does with a fault.   *)
(***************************************************************************)
FaultTexts == { "connection reset by peer", RateLimitBody }
Faults == { Raise(t) : t \in FaultTexts }

\* the state a stage is entered with when the stages before it succeeded
AfterDownload(t) ==
    Merge(initial_state, [media_file_path |-> Some("media"), media_type |-> Some(t)])
AfterExtraction ==
    Merge(AfterDownload("image"), [search_queries |-> Some(<< 1 >>)])

StageInit ==
    /\ \/ call_args \in [stage : { "download" }, st : { initial_state },
                          a : download_from_cdn \cup Faults, b : { Ret(None) }]
       \/ call_args \in [stage : { "extraction" },
                          st : { AfterDownload(t) : t \in MediaTypes },
                          a : FrameResults \cup Faults,
                          b : extract_with_google_gemini \cup Faults]
       \/ call_args \in [stage : { "search" }, st : { AfterExtraction },
                          a : ClaudeProductSearcher \cup Faults,
                          b : [1..max_retries -> search_products]]
    /\ call_result = None
    /\ handlers = << >>
    /\ PipelineIdle
    /\ DispatcherIdle

\* the graph calls the node
RunStage ==
    /\ call_result = None
    /\ call_result' =
          Some(CASE call_args.stage = "download" ->
                      node_download_media(call_args.st, call_args.a)
                 [] call_args.stage = "extraction" ->
                      node_extract_product_info(call_args.st, call_args.a, call_args.b)
                 [] call_args.stage = "search" ->
                      node_search_products(call_args.st, call_args.a, call_args.b))
    /\ UNCHANGED << call_args, handlers, pipeline_vars, dispatcher_vars >>

StageNext == RunStage

StageSpec == StageInit /\ [][StageNext]_vars

\* the fault that ended the work of the stage, None when there was none
StageFault ==
    CASE call_args.stage = "download" ->
           IF call_args.a.raised THEN Some(call_args.a.msg) ELSE None
      [] call_args.stage = "extraction" ->
           LET prep == prepare_media_for_extraction(call_args.st.media_type[1], call_args.a)
           IN  IF prep.raised THEN Some(prep.msg)
               ELSE IF Len(prep.value) > 0 /\ call_args.b.raised THEN Some(call_args.b.msg)
               ELSE None
      [] call_args.stage = "search" ->
           IF call_args.a.raised THEN Some(call_args.a.msg)
           ELSE IF search_loop(0, call_args.b).raised
           THEN Some(search_loop(0, call_args.b).msg)
           ELSE None

\* the error slot of a stage
ErrorSlot(stage) ==
    CASE stage = "download" -> "download_error"
      [] stage = "extraction" -> "extraction_error"
      [] stage = "search" -> "search_error"

\* C32: whatever fault a collaborator raises inside download, extraction or
\* search, the stage function returns with its error slot set to the fault's
\* text, one log entry with status error and the fault's text in the errors
\* list; no exception leaves the stage function.
C32_StageFaultCapture ==
    call_result # None =>
        LET r == call_result[1]
            slot == ErrorSlot(call_args.stage)
        IN  /\ ~r.raised
            /\ StageFault # None =>
                  /\ slot \in DOMAIN r.update
                  /\ r.update[slot] = StageFault
                  /\ Len(r.update.logs) = 1
                  /\ r.update.logs[1].stage = call_args.stage
                  /\ r.update.logs[1].status = "error"
                  /\ r.update.logs[1].error = StageFault
                  /\ "errors" \in DOMAIN r.update
                  /\ Len(r.update.errors) = 1
                  /\ r.update.errors[1] =
                        [stage |-> call_args.stage, text |-> StageFault[1]]

\* download_from_cdn raised and the download node returned the error
C32_Witness ==
    /\ call_result # None
    /\ call_args.stage = "download"
    /\ call_args.a = Raise("connection reset by peer")
    /\ ~call_result[1].raised
    /\ call_result[1].update.download_error = Some("connection reset by peer")

(***************************************************************************)
(* The search stage without search queries.                                *)
(***************************************************************************)
\* the search stage is about to run without queries and without an
\* extraction error
NoQueries ==
    /\ node = "search"
    /\ IsNone(state.extraction_error)
    /\ state.search_queries \in { None, Some(<< >>) }

ChunkInit ==
    /\ call_args \in [recipient_id : { Some(u) : u \in Senders },
                      product_urls : { [i \in 1..n |-> i] : n \in 0..MaxResults }]
    /\ call_result = None
    /\ handlers = << >>
    /\ PipelineIdle
    /\ DispatcherIdle

SendResults ==
    /\ call_result = None
    /\ call_result' = Some(send_product_results(call_args.recipient_id,
                                                 call_args.product_urls))
    /\ UNCHANGED << call_args, handlers, pipeline_vars, dispatcher_vars >>

ChunkNext == SendResults

ChunkSpec == ChunkInit /\ [][ChunkNext]_vars

RECURSIVE Concat(_)
\* the URLs of the messages, one after the other
Concat(msgs) == IF Len(msgs) = 0 THEN << >> ELSE msgs[1].urls \o Concat(Tail(msgs))

\* the least number of messages of ten URLs that hold n URLs
Ceil10(n) == CHOOSE c \in 0..n : 10 * c >= n /\ 10 * (c - 1) < n

\* C34: send_product_results with n >= 1 URLs sends ceil(n/10) messages in
\* sequence, each with at most 10 URLs; every URL is in exactly one message
\* and the URLs keep their order across the messages.
C34_ResultChunking ==
    (call_result # None /\ Len(call_args.product_urls) >= 1) =>
        LET msgs == call_result[1]
            n == Len(call_args.product_urls)
        IN  /\ Len(msgs) = Ceil10(n)
            /\ \A k \in 1..Len(msgs) :
                  /\ Len(msgs[k].urls) >= 1
                  /\ Len(msgs[k].urls) <= 10
                  /\ msgs[k].to = call_args.recipient_id
                  /\ msgs[k].text = LinksText
            /\ Concat(msgs) = call_args.product_urls

\* 21 URLs went out in three messages, the last with one URL
C34_Witness ==
    /\ call_result # None
    /\ Len(call_args.product_urls) = 21
    /\ Len(call_result[1]) = 3
    /\ call_result[1][3].urls = << 21 >>

(***************************************************************************)
(* InstagramShoppingExtractor.is_likely_shopping_url (src/webhook_receiver.py). *)
(* A string is the sequence of its characters, so that `in' is the search  *)
(* for a substring and lower() works character by character.               *)
(***************************************************************************)
LowerChar(c) ==
    CASE c = "A" -> "a" []
         c = "B" -> "b" []
         c = "C" -> "c" []
         c = "D" -> "d" []
         c = "E" -> "e" []
         c = "F" -> "f" []
         c = "G" -> "g" []
         c = "H" -> "h" []
         c = "I" -> "i" []
         c = "J" -> "j" []
         c = "K" -> "k" []
         c = "L" -> "l" []
         c = "M" -> "m" []
         c = "N" -> "n" []
         c = "O" -> "o" []
         c = "P" -> "p" []
         c = "Q" -> "q" []
         c = "R" -> "r" []
         c = "S" -> "s" []
         c = "T" -> "t" []
         c = "U" -> "u" []
         c = "V" -> "v" []
         c = "W" -> "w" []
         c = "X" -> "x" []
         c = "Y" -> "y" []
         c = "Z" -> "z"
      [] OTHER -> c
str_lower(s) == [i \in 1..Len(s) |-> LowerChar(s[i])]

\* needle in hay
Contains(needle, hay) ==
    \E i \in 1..(Len(hay) - Len(needle) + 1) :
        SubSeq(hay, i, i + Len(needle) - 1) = needle

excluded_domains ==
    { << "i", "n", "s", "t", "a", "g", "r", "a", "m", ".", "c", "o", "m" >>,
      << "f", "a", "c", "e", "b", "o", "o", "k", ".", "c", "o", "m" >>,
      << "f", "b", ".", "m", "e" >>,
      << "l", "o", "o", "k", "a", "s", "i", "d", "e", ".", "f", "b", "s", "b", "x", ".", "c", "o", "m" >>,
      << "s", "c", "o", "n", "t", "e", "n", "t" >>,
      << "t", "w", "i", "t", "t", "e", "r", ".", "c", "o", "m" >>,
      << "y", "o", "u", "t", "u", "b", "e", ".", "c", "o", "m" >>,
      << "t", "i", "k", "t", "o", "k", ".", "c", "o", "m" >>,
      << "l", "i", "n", "k", "e", "d", "i", "n", ".", "c", "o", "m" >> }
shopping_indicators ==
    { << "/", "p", "r", "o", "d", "u", "c", "t" >>,
      << "/", "s", "h", "o", "p" >>,
      << "/", "b", "u", "y" >>,
      << "/", "s", "t", "o", "r", "e" >>,
      << "/", "i", "t", "e", "m" >>,
      << "/", "c", "a", "r", "t" >>,
      << "/", "c", "h", "e", "c", "k", "o", "u", "t" >>,
      << "/", "o", "r", "d", "e", "r" >>,
      << "/", "p", "u", "r", "c", "h", "a", "s", "e" >>,
      << "/", "c", "o", "l", "l", "e", "c", "t", "i", "o", "n" >>,
      << "s", "h", "o", "p", "i", "f", "y", "." >>,
      << ".", "s", "t", "o", "r", "e" >>,
      << ".", "s", "h", "o", "p" >>,
      << ".", "b", "u", "y" >> }
shorteners ==
    { << "b", "i", "t", ".", "l", "y" >>,
      << "l", "i", "n", "k", "t", "r", ".", "e", "e" >>,
      << "l", "i", "n", "k", ".", "b", "i", "o" >>,
      << "l", "i", "n", "k", "i", "n", ".", "b", "i", "o" >> }

TextHosts ==
    { << "r", "e", "t", "a", "i", "l", "e", "r", ".", "e", "x", "a", "m", "p", "l", "e" >>,
      << "R", "e", "t", "a", "i", "l", "e", "r", ".", "E", "x", "a", "m", "p", "l", "e" >>,
      << "i", "n", "s", "t", "a", "g", "r", "a", "m", ".", "c", "o", "m" >>,
      << "w", "w", "w", ".", "i", "n", "s", "t", "a", "g", "r", "a", "m", ".", "c", "o", "m" >>,
      << "b", "i", "t", ".", "l", "y" >>,
      << "b", "r", "a", "n", "d", ".", "s", "t", "o", "r", "e" >>,
      << "s", "c", "o", "n", "t", "e", "n", "t", ".", "c", "d", "n", ".", "e", "x", "a", "m", "p", "l", "e" >> }
TextPaths ==
    { << >>,
      << "/", "p", "/", "4", "2" >>,
      << "/", "P", "/", "4", "2" >>,
      << "/", "p", "r", "o", "d", "u", "c", "t", "/", "4", "2" >>,
      << "/", "P", "R", "O", "D", "U", "C", "T", "/", "4", "2" >>,
      << "/", "s", "h", "o", "p" >>,
      << "/", "a", "b", "o", "u", "t" >>,
      << "/", "i", "t", "e", "m", "/", "7" >>,
      << "/", "r", "e", "e", "l", "/", "a", "b", "c" >> }

\* the text of the URL https://{netloc}{path}
UrlText(netloc, path) == << "h", "t", "t", "p", "s", ":", "/", "/" >> \o netloc \o path

\* urlparse(url.lower()).netloc of such a URL
netloc_lower(netloc) == str_lower(netloc)

is_likely_shopping_url(netloc, path) ==
    LET domain == netloc_lower(netloc)
        url_lower == str_lower(UrlText(netloc, path))
    IN  IF \E excluded \in excluded_domains : Contains(excluded, domain) THEN FALSE
        ELSE IF \E indicator \in shopping_indicators : Contains(indicator, url_lower)
        THEN TRUE
        ELSE \E shortener \in shorteners : Contains(shortener, domain)

ShoppingInit ==
    /\ call_args \in [netloc : TextHosts, path : TextPaths]
    /\ call_result = None
    /\ handlers = << >>
    /\ PipelineIdle
    /\ DispatcherIdle

Classify ==
    /\ call_result = None
    /\ call_result' = Some(is_likely_shopping_url(call_args.netloc, call_args.path))
    /\ UNCHANGED << call_args, handlers, pipeline_vars, dispatcher_vars >>

ShoppingNext == Classify

ShoppingSpec == ShoppingInit /\ [][ShoppingNext]_vars

\* C35: a URL on a host outside the social/CDN denylist whose path contains
\* the token /p/, such as https://retailer.example/p/42, is classified as a
\* likely commerce URL.
C35_CommercePath ==
    (/\ call_result # None
     /\ ~\E excluded \in excluded_domains : Contains(excluded, str_lower(call_args.netloc))
     /\ Contains(<< "/", "p", "/" >>, call_args.path)) =>
        call_result[1] = TRUE

(***************************************************************************)
(* Shortened-link expansion of process_instagram_message: the body of the  *)
(* loop over shop_urls, for one candidate.  head is the outcome of         *)
(* session.head(url, allow_redirects=True); api is the outcome of the      *)
(* product-tag lookup made for an Instagram destination                    *)
(* (extract_media_id_from_permalink, get_media_with_product_tags,          *)
(* extract_shopping_urls_from_media): the URLs it found, none when there   *)
(* is no media id or no media data, or a fault.                            *)
(***************************************************************************)
\* the tokens of the loop's test: any(domain in url for domain in [...])
shortener_domains ==
    { << "b", "i", "t", ".", "l", "y" >>,
      << "l", "i", "n", "k", "t", "r", ".", "e", "e" >>,
      << "l", "i", "n", "k", ".", "t", "r", "e", "e" >>,
      << "t", "i", "n", "y", "u", "r", "l", ".", "c", "o", "m" >>,
      << "g", "o", "o", ".", "g", "l" >>,
      << "t", ".", "c", "o" >> }

instagram_com == << "i", "n", "s", "t", "a", "g", "r", "a", "m", ".", "c", "o", "m" >>

ExpandUrls ==
    { << "h", "t", "t", "p", "s", ":", "/", "/", "b", "i", "t", ".", "l", "y", "/", "4", "2" >>,
      << "h", "t", "t", "p", "s", ":", "/", "/", "t", "i", "n", "y", "u", "r", "l", ".", "c", "o", "m", "/", "4", "2" >>,
      << "h", "t", "t", "p", "s", ":", "/", "/", "r", "e", "t", "a", "i", "l", "e", "r", ".", "e", "x", "a", "m", "p", "l", "e", "/", "p", "/", "4", "2" >>,
      << "h", "t", "t", "p", "s", ":", "/", "/", "m", "a", "r", "k", "e", "t", ".", "c", "o", "m", "/", "s", "h", "o", "p" >>,
      << "h", "t", "t", "p", "s", ":", "/", "/", "b", "i", "t", ".", "l", "y", "/", "i", "n", "s", "t", "a", "g", "r", "a", "m", ".", "c", "o", "m" >> }

Destinations ==
    { << "h", "t", "t", "p", "s", ":", "/", "/", "b", "r", "a", "n", "d", ".", "s", "t", "o", "r", "e", "/", "s", "h", "o", "p" >>,
      << "h", "t", "t", "p", "s", ":", "/", "/", "w", "w", "w", ".", "i", "n", "s", "t", "a", "g", "r", "a", "m", ".", "c", "o", "m", "/", "p", "/", "C", "4", "/" >>,
      << "h", "t", "t", "p", "s", ":", "/", "/", "w", "w", "w", ".", "i", "n", "s", "t", "a", "g", "r", "a", "m", ".", "c", "o", "m", "/", "r", "e", "e", "l", "/", "C", "4", "/" >> }

ApiUrls ==
    { << "h", "t", "t", "p", "s", ":", "/", "/", "b", "r", "a", "n", "d", ".", "s", "t", "o", "r", "e", "/", "i", "t", "e", "m", "/", "1" >>,
      << "h", "t", "t", "p", "s", ":", "/", "/", "b", "r", "a", "n", "d", ".", "s", "t", "o", "r", "e", "/", "i", "t", "e", "m", "/", "2" >> }

HeadOutcomes == { Ret(d) : d \in Destinations } \cup { Raise("timeout") }

ApiOutcomes ==
    { Ret(<< >>), Ret(<< << "h", "t", "t", "p", "s", ":", "/", "/", "b", "r", "a", "n", "d", ".", "s", "t", "o", "r", "e", "/", "i", "t", "e", "m", "/", "1" >> >>),
      Ret(<< << "h", "t", "t", "p", "s", ":", "/", "/", "b", "r", "a", "n", "d", ".", "s", "t", "o", "r", "e", "/", "i", "t", "e", "m", "/", "1" >>,
             << "h", "t", "t", "p", "s", ":", "/", "/", "b", "r", "a", "n", "d", ".", "s", "t", "o", "r", "e", "/", "i", "t", "e", "m", "/", "2" >> >>),
      Raise("access token") }

\* expand_shortened_url: response.url, or the URL itself on any exception
expand_shortened_url(url, head) == IF head.raised THEN url ELSE head.value

\* what the loop appends to expanded_urls for one candidate
expanded_urls_drop(url, head, api) ==
    IF \E domain \in shortener_domains : Contains(domain, url)
        THEN IF head.raised THEN << >> ELSE << head.value >>
        ELSE << url >>

expanded_urls(url, head, api) ==
    IF \E domain \in shortener_domains : Contains(domain, url)
        THEN LET expanded_url == expand_shortened_url(url, head)
             IN  IF Contains(instagram_com, expanded_url)
                    THEN IF api.raised
                            \* except Exception: expanded_urls.append(url)
                            THEN << expanded_url, url >>
                            ELSE << expanded_url >> \o api.value
                    ELSE << expanded_url >>
        ELSE << url >>

ExpandInit ==
    /\ call_args \in [url : ExpandUrls, head : HeadOutcomes, api : ApiOutcomes]
    /\ call_result = None
    /\ handlers = << >>
    /\ PipelineIdle
    /\ DispatcherIdle

Expand ==
    /\ call_result = None
    /\ call_result' = Some(expanded_urls(call_args.url, call_args.head, call_args.api))
    /\ UNCHANGED << call_args, handlers, pipeline_vars, dispatcher_vars >>

ExpandNext == Expand

ExpandSpec == ExpandInit /\ [][ExpandNext]_vars

Shortened(url) == \E domain \in shortener_domains : Contains(domain, url)

\* the URL the claim names: the redirect destination when expansion
\* succeeds, the original shortened URL when it fails
InPlace == expand_shortened_url(call_args.url, call_args.head)

C37_MarkedIsProcessed ==
    Len(inserted) > 0 =>
        is_message_processed(inserted[Len(inserted)])

\* C38: when one POST carries several events, a fault raised while handling
\* one of them does not stop the events after it: an event that is not the
\* last of its request leaves the loop going on to the next one.
C38_BatchIsolation ==
    [][\A event \in Events : HandleCore(event, FALSE) => pending']_vars

\* the admission a step makes, if it makes one
AdmissionStep == Len(inserted') = Len(inserted) + 1

\* C39: every acknowledgment sent and every pipeline thread started belongs
\* to an admission, and the step that admits an event inserts its identifier
\* in the ledger; an acknowledgment is sent and a thread is started by an
\* admitting step only, and no step admits an identifier the ledger holds:
\* so an event that faulted after its insertion causes no acknowledgment and
\* no thread when it is delivered again while its identifier is in the ledger.
C39_LedgerBeforeWork ==
    /\ [](/\ \A a \in 1..Len(outbox) : outbox[a].event \in Admissions
          /\ \A i \in 1..Len(threads) :
                /\ threads[i].event \in Admissions
                /\ threads[i].session_id = inserted[threads[i].event])
    /\ [][(outbox' # outbox \/ Len(threads') # Len(threads)) /\ ~AdmissionStep =>
            \E i \in 1..Len(threads) : threads[i].pc = "started" /\ threads'[i].pc = "done"]_vars
    /\ [][AdmissionStep =>
            LET message_id == inserted'[Len(inserted')]
            IN  /\ processed_messages' \subseteq processed_messages \cup { message_id }
                /\ Cardinality(processed_messages \cup { message_id }) <= MAX_PROCESSED_MESSAGES =>
                      message_id \in processed_messages']_vars
    /\ [][AdmissionStep => inserted'[Len(inserted')] \notin processed_messages]_vars

\* an event with media and no sender was acknowledged, faulted before its
\* thread started, and was skipped as a duplicate when delivered again
C39_Witness ==
    /\ Len(inserted) = 1
    /\ inserted[1] \in processed_messages
    /\ Len(outbox) = 1
    /\ outbox[1].event = 1
    /\ outbox[1].msg.text = AckMediaText
    /\ threads = << >>
    /\ inserted[1] \in duplicates

\* C40: a GET /webhook that supplies no hub.verify_token is answered 403,
\* whether or not a verify token is configured for the service.
C40_NoTokenForbidden ==
    (call_result # None /\ IsNone(call_args.token)) =>
        call_result[1].status = 403

====
